---- MODULE Spec2Model ----
(***************************************************************************)
(* book-splitter: the split-point loops of the EPUB and PDF splitters and  *)
(* the pipelines (extract, determine split points, write the parts) that   *)
(* run them.                                                               *)
(*                                                                         *)
(* Units are numbered as in the source (0-based); TLA+ sequences are       *)
(* 1-based, so unit k of a list is element k+1 of the sequence.            *)
(***************************************************************************)
EXTENDS Integers, Sequences, FiniteSets, TLC

VARIABLES
    cli,                \* TRUE: the run starts at main(); FALSE: the split function is called
    module,             \* the module whose main() or split function is the entry point
    input_exists,       \* os.path.isfile(input_file)
    input_ext,          \* lower-cased extension of input_file
    output_format,      \* --output-format / output_format (unified splitter only)
    max_words,          \* argument max_words
    strict,             \* argument strict_chapters / strict_boundaries
    program,            \* the pipeline that runs ("none" until one is called)
    dir_exists,         \* the output directory exists
    chapters,           \* EPUB: the extracted chapters (records with word_count)
    pages,              \* PDF: the extracted pages (records with text, word_count)
    pc,                 \* position in the run
    i,                  \* loop variable of "for i, unit in enumerate(units)"
    split_points,       \* list of indices of the last unit of each part
    current_word_count, \* accumulator: words
    current_units,      \* accumulator: current_chapters / current_pages (unit indices)
    part_start,         \* output loop: first unit of the next part
    part_index,         \* output loop: loop variable i of enumerate(split_points)
    written,            \* the part files written so far, in order
    output_files,       \* list of paths built by the split function
    exit_code,          \* exit code of the process (None until it exits)
    error_reported,     \* an "Error: ..." line was printed
    branch,             \* the branch the last loop iteration took (history)
    boundaries,         \* detect_section_boundaries: the list it builds
    copies,             \* the loops of all five programs run side by side: their accumulators
    first_call,         \* EPUBProcessor: what the first process() call on the instance gave
    steps               \* the stages of the run that have started (history)

args == <<cli, module, input_exists, input_ext, output_format, max_words, strict>>

loop_vars == <<i, split_points, current_word_count, current_units, branch>>

out_vars == <<part_start, part_index, written, output_files>>

side_vars == <<boundaries, copies, first_call>>

vars == <<args, program, dir_exists, chapters, pages, pc, loop_vars, out_vars,
          exit_code, error_reported, steps, boundaries, copies, first_call>>

----------------------------------------------------------------------------
(* Bounds of the model *)

MaxChapters == 3

MaxWordCount == 4

MaxWords == 5

MaxPages == 6

MaxPageWords == 2

MaxPageBudget == 2

RunMaxUnits == 2

RunMaxWordCount == 2

RunMaxWords == 2

----------------------------------------------------------------------------
(* Helpers on sequences *)

RECURSIVE SumSeq(_)
SumSeq(s) == IF s = <<>> THEN 0 ELSE Head(s) + SumSeq(Tail(s))

\* Python slice idx[a:b] of the index list 0..n-1, as a sequence of indices.
\* Like Python it clamps: an empty or inverted range gives the empty list.
Slice(n, a, b) ==
    LET lo == IF a < 0 THEN 0 ELSE a
        hi == IF b > n THEN n ELSE b
    IN  IF hi <= lo THEN <<>> ELSE [k \in 1..(hi - lo) |-> lo + k - 1]

Last(s) == s[Len(s)]

----------------------------------------------------------------------------
(* Modules and the pipelines they run *)

Modules ==
    {"splitter", "epub_splitter", "epub_to_markdown", "pdf_to_markdown",
     "minimal_epub_splitter", "simple_epub_splitter"}

EpubPrograms ==
    {"epub_processor", "epub_to_markdown", "minimal_epub_splitter", "simple_epub_splitter"}

PdfProgram == "pdf_to_markdown"

NoProgram == "none"

\* epub_splitter.split_epub_to_epub runs EPUBProcessor.process; every other
\* module runs its own split function.
ProgramOf(m) == IF m = "epub_splitter" THEN "epub_processor" ELSE m

ModuleOf(prog) == IF prog = "epub_processor" THEN "epub_splitter" ELSE prog

ExtensionOf(prog) == IF prog = PdfProgram THEN ".pdf" ELSE ".epub"

\* No loops are run side by side.
NoCopies == <<>>

\* self.chapters and self.output_files of a new EPUBProcessor; no process()
\* call has returned yet.
NoCall == [calls |-> 0, chapters |-> <<>>, split_points |-> <<>>, output_files |-> <<>>]

----------------------------------------------------------------------------
(* The accumulator of the split-point loops *)

EmptyAccumulator ==
    [split_points |-> <<>>, current_word_count |-> 0, current_units |-> <<>>,
     branch |-> "none"]

\* A threshold of 20% of max_words (mutant of AtLeastFortyPercent).
AtLeastTwentyPercent(words, maxw) == 5 * words >= maxw

\* A threshold of 60% of max_words (mutant of AtLeastFortyPercent).
AtLeastSixtyPercent(words, maxw) == 5 * words >= 3 * maxw

\* A threshold test that leaves out equality (mutant of AtLeastFortyPercent).
AboveFortyPercent(words, maxw) == 5 * words > 2 * maxw

\* current_word_count >= 0.4 * max_words.  0.4 * max_words is a float product; for
\* integers in the range of word counts it compares like the exact 2/5 of
\* max_words (the product is exact when max_words is a multiple of 5 and
\* otherwise stays between the same two integers).
AtLeastFortyPercent(words, maxw) == 5 * words >= 2 * maxw

\* A split that starts the next part empty (mutant of SplitBefore).
SplitBefore_EmptiesAccumulator(acc, idx, word_count) ==
    [split_points |-> Append(acc.split_points, idx - 1),
     current_word_count |-> 0,
     current_units |-> <<>>,
     branch |-> "split_before"]

\* An absorb that closes the partition but keeps the accumulator (mutant of
\* AddAndSplitAfter).
AddAndSplitAfter_KeepsAccumulator(acc, idx, word_count) ==
    [split_points |-> Append(acc.split_points, idx),
     current_word_count |-> acc.current_word_count + word_count,
     current_units |-> Append(acc.current_units, idx),
     branch |-> "absorb"]

\* The three outcomes of one iteration of the chapter loops.
SplitBefore(acc, idx, word_count) ==
    [split_points |-> Append(acc.split_points, idx - 1),
     current_word_count |-> word_count,
     current_units |-> <<idx>>,
     branch |-> "split_before"]

AddAndSplitAfter(acc, idx, word_count) ==
    [split_points |-> Append(acc.split_points, idx),
     current_word_count |-> 0,
     current_units |-> <<>>,
     branch |-> "absorb"]

AddToCurrent(acc, idx, word_count) ==
    [split_points |-> acc.split_points,
     current_word_count |-> acc.current_word_count + word_count,
     current_units |-> Append(acc.current_units, idx),
     branch |-> "append"]

\* A loop body that splits after the chapter without emptying the accumulator
\* (mutant of ProcessorLoopBody).
ProcessorLoopBody_KeepsAccumulator(acc, idx, word_count, maxw, strict_chapters) ==
    IF acc.current_word_count + word_count > maxw /\ acc.current_units # <<>>
    THEN IF strict_chapters \/ AtLeastFortyPercent(acc.current_word_count, maxw)
         THEN SplitBefore(acc, idx, word_count)
         ELSE [AddToCurrent(acc, idx, word_count) EXCEPT
                  !.split_points = Append(acc.split_points, idx),
                  !.branch = "absorb"]
    ELSE AddToCurrent(acc, idx, word_count)

\* A loop body that does not look at strict_chapters (mutant of ProcessorLoopBody).
ProcessorLoopBody_IgnoresStrict(acc, idx, word_count, maxw, strict_chapters) ==
    IF acc.current_word_count + word_count > maxw /\ acc.current_units # <<>>
    THEN IF AtLeastFortyPercent(acc.current_word_count, maxw)
         THEN SplitBefore(acc, idx, word_count)
         ELSE AddAndSplitAfter(acc, idx, word_count)
    ELSE AddToCurrent(acc, idx, word_count)

\* A loop body whose overflow test leaves out "and current_chapters" (mutant
\* of ProcessorLoopBody).
ProcessorLoopBody_SplitsOnEmpty(acc, idx, word_count, maxw, strict_chapters) ==
    IF acc.current_word_count + word_count > maxw
    THEN IF strict_chapters \/ AtLeastFortyPercent(acc.current_word_count, maxw)
         THEN SplitBefore(acc, idx, word_count)
         ELSE AddAndSplitAfter(acc, idx, word_count)
    ELSE AddToCurrent(acc, idx, word_count)

\* EPUBProcessor.determine_split_points: body of the for loop.
ProcessorLoopBody(acc, idx, word_count, maxw, strict_chapters) ==
    IF acc.current_word_count + word_count > maxw /\ acc.current_units # <<>>
    THEN IF strict_chapters \/ AtLeastFortyPercent(acc.current_word_count, maxw)
         THEN SplitBefore(acc, idx, word_count)
         ELSE AddAndSplitAfter(acc, idx, word_count)
    ELSE AddToCurrent(acc, idx, word_count)

\* epub_to_markdown.split_epub: body of the for loop.
MarkdownLoopBody(acc, idx, word_count, maxw, strict_chapters) ==
    IF acc.current_word_count + word_count > maxw /\ acc.current_units # <<>>
    THEN IF strict_chapters \/ AtLeastFortyPercent(acc.current_word_count, maxw)
         THEN SplitBefore(acc, idx, word_count)
         ELSE AddAndSplitAfter(acc, idx, word_count)
    ELSE AddToCurrent(acc, idx, word_count)

\* minimal_epub_splitter.split_epub: body of the for loop.
MinimalLoopBody(acc, idx, word_count, maxw, strict_chapters) ==
    IF acc.current_word_count + word_count > maxw /\ acc.current_units # <<>>
    THEN IF strict_chapters \/ AtLeastFortyPercent(acc.current_word_count, maxw)
         THEN SplitBefore(acc, idx, word_count)
         ELSE AddAndSplitAfter(acc, idx, word_count)
    ELSE AddToCurrent(acc, idx, word_count)

\* simple_epub_splitter.split_epub: body of the for loop.
SimpleLoopBody(acc, idx, word_count, maxw, strict_chapters) ==
    IF acc.current_word_count + word_count > maxw /\ acc.current_units # <<>>
    THEN IF strict_chapters \/ AtLeastFortyPercent(acc.current_word_count, maxw)
         THEN SplitBefore(acc, idx, word_count)
         ELSE AddAndSplitAfter(acc, idx, word_count)
    ELSE AddToCurrent(acc, idx, word_count)

ChapterLoopBody(prog, acc, idx, word_count, maxw, strict_chapters) ==
    CASE prog = "epub_processor" ->
            ProcessorLoopBody(acc, idx, word_count, maxw, strict_chapters)
      [] prog = "epub_to_markdown" ->
            MarkdownLoopBody(acc, idx, word_count, maxw, strict_chapters)
      [] prog = "minimal_epub_splitter" ->
            MinimalLoopBody(acc, idx, word_count, maxw, strict_chapters)
      [] prog = "simple_epub_splitter" ->
            SimpleLoopBody(acc, idx, word_count, maxw, strict_chapters)

----------------------------------------------------------------------------
(* pdf_to_markdown: section boundaries and the page loop *)

\* A line of a page's text, as the detector sees it: the length of the line
\* after strip(), and the chapter pattern its stripped, lower-cased form matches
\* at its start ("none" when it matches none of the four).
NoPattern == "none"

ChapterPatterns == <<"chapter", "numbered", "section", "part">>

\* for pattern in chapter_patterns: if re.match(pattern, line): ...; break
MatchesChapterPattern(line) ==
    \E k \in 1..Len(ChapterPatterns) : line.pattern = ChapterPatterns[k]

\* len(lines) > 1 and len(line) < 50 and len(line) > 3 and lines[1].strip() == ''
ShortHeading(lines, line) ==
    /\ Len(lines) > 1
    /\ line.len < 50
    /\ line.len > 3
    /\ lines[2].len = 0

\* The "for line in lines" loop of one page from line k on: the indices it
\* appends to boundaries.  A pattern match appends and goes on with the same
\* line; the short-heading test appends and leaves the loop.
RECURSIVE ScanLines(_, _, _)
ScanLines(lines, k, idx) ==
    IF k > Len(lines) THEN <<>>
    ELSE LET line == lines[k]
             by_pattern == IF MatchesChapterPattern(line) THEN <<idx>> ELSE <<>>
         IN  IF ShortHeading(lines, line)
             THEN by_pattern \o <<idx>>
             ELSE by_pattern \o ScanLines(lines, k + 1, idx)

\* All lines of the text, not the first five (mutant of FirstLines).
FirstLines_AllLines(text) == text

\* text.split('\n')[:5]
FirstLines(text) == SubSeq(text, 1, IF Len(text) < 5 THEN Len(text) ELSE 5)

RECURSIVE DetectFrom(_, _)
DetectFrom(pgs, idx) ==
    IF idx >= Len(pgs) THEN <<>>
    ELSE ScanLines(FirstLines(pgs[idx + 1].text), 1, idx) \o DetectFrom(pgs, idx + 1)

detect_section_boundaries(pgs) == DetectFrom(pgs, 0)

SetMax(S) == CHOOSE x \in S : \A y \in S : y <= x

Range(s) == {s[k] : k \in 1..Len(s)}

None == -1

\* The largest boundary, also when it lies after idx (mutant of ClosestBoundary).
ClosestBoundary_AnyBoundary(section_boundaries, idx) ==
    IF section_boundaries = <<>> THEN None ELSE SetMax(Range(section_boundaries))

\* The "for boundary in section_boundaries" loop: the largest boundary <= idx,
\* None when there is none.
ClosestBoundary(section_boundaries, idx) ==
    LET before == {b \in Range(section_boundaries) : b <= idx}
    IN  IF before = {} THEN None ELSE SetMax(before)

LookBack == 5

PageWords(pgs, idxs) == SumSeq([k \in 1..Len(idxs) |-> pgs[idxs[k] + 1].word_count])

\* Split at the boundary: the pages after it up to and including page idx
\* become the accumulator.
SplitAtBoundary(acc, idx, pgs, closest_boundary) ==
    [split_points |-> Append(acc.split_points, closest_boundary),
     current_word_count |->
        PageWords(pgs, Slice(Len(pgs), closest_boundary + 1, idx + 1)),
     current_units |-> Slice(Len(pgs), closest_boundary + 1, idx + 1),
     branch |-> "boundary"]

\* pdf_to_markdown.determine_split_points: body of the for loop.
PdfLoopBody(acc, idx, pgs, maxw, strict_boundaries, section_boundaries) ==
    LET word_count == pgs[idx + 1].word_count
        closest_boundary == ClosestBoundary(section_boundaries, idx)
    IN  IF acc.current_word_count + word_count > maxw /\ acc.current_units # <<>>
        THEN IF /\ strict_boundaries
                /\ section_boundaries # <<>>
                /\ closest_boundary # None
                /\ closest_boundary > idx - LookBack
             THEN SplitAtBoundary(acc, idx, pgs, closest_boundary)
             ELSE SplitBefore(acc, idx, word_count)
        ELSE AddToCurrent(acc, idx, word_count)

----------------------------------------------------------------------------
(* The split-point functions as functions of their arguments *)

RECURSIVE ChapterLoopFrom(_, _, _, _, _, _)
ChapterLoopFrom(prog, acc, idx, chs, maxw, strict_chapters) ==
    IF idx >= Len(chs) THEN acc
    ELSE ChapterLoopFrom(prog,
                         ChapterLoopBody(prog, acc, idx, chs[idx + 1].word_count,
                                         maxw, strict_chapters),
                         idx + 1, chs, maxw, strict_chapters)

RECURSIVE PdfLoopFrom(_, _, _, _, _, _)
PdfLoopFrom(acc, idx, pgs, maxw, strict_boundaries, section_boundaries) ==
    IF idx >= Len(pgs) THEN acc
    ELSE PdfLoopFrom(PdfLoopBody(acc, idx, pgs, maxw, strict_boundaries,
                                 section_boundaries),
                     idx + 1, pgs, maxw, strict_boundaries, section_boundaries)

\* The loops without their final flush (mutant of LastPart).
LastPart_Skipped(acc, n) == acc.split_points

\* A last-part step that does not test the accumulator (mutant of LastPart).
LastPart_Unconditional(acc, n) == Append(acc.split_points, n - 1)

\* "Add the last part if there are remaining chapters"
LastPart(acc, n) ==
    IF acc.current_units # <<>> THEN Append(acc.split_points, n - 1)
    ELSE acc.split_points

\* The list a chapter program's split-point code computes.
chapter_split_points(prog, chs, maxw, strict_chapters) ==
    LastPart(ChapterLoopFrom(prog, EmptyAccumulator, 0, chs, maxw, strict_chapters),
             Len(chs))

\* pdf_to_markdown.determine_split_points
determine_split_points(pgs, maxw, strict_boundaries) ==
    LastPart(PdfLoopFrom(EmptyAccumulator, 0, pgs, maxw, strict_boundaries,
                         detect_section_boundaries(pgs)),
             Len(pgs))

----------------------------------------------------------------------------
(* Inputs: what extraction can return *)

ChapterSeqs(max_units, max_count) ==
    UNION {[1..n -> [word_count : 0..max_count]] : n \in 0..max_units}

ChapterInputs == ChapterSeqs(MaxChapters, MaxWordCount)

RunChapterInputs == ChapterSeqs(RunMaxUnits, RunMaxWordCount)

\* Page texts: a page of running text, and a page that opens with a short
\* title line followed by a blank line.  Both hold at least one word.
BodyLine == [len |-> 60, pattern |-> NoPattern]

TitleLine == [len |-> 5, pattern |-> NoPattern]

BlankLine == [len |-> 0, pattern |-> NoPattern]

PlainText == <<BodyLine>>

TitledText == <<TitleLine, BlankLine, BodyLine>>

\* A page is short (one word) or long (max_count words).
PageSeqs(max_units, max_count) ==
    UNION {[1..n -> [text : {PlainText, TitledText}, word_count : {1, max_count}]] :
             n \in 0..max_units}

PageInputs == PageSeqs(MaxPages, MaxPageWords)

RunPageInputs == PageSeqs(RunMaxUnits, RunMaxWordCount)

Units == IF program = PdfProgram THEN pages ELSE chapters

NumUnits == Len(Units)

WordCount(idx) == Units[idx + 1].word_count

Accumulator ==
    [split_points |-> split_points, current_word_count |-> current_word_count,
     current_units |-> current_units, branch |-> branch]

----------------------------------------------------------------------------
(* The split functions, step by step *)

StartLoop ==
    /\ pc' = "loop"
    /\ i' = 0
    /\ split_points' = EmptyAccumulator.split_points
    /\ current_word_count' = EmptyAccumulator.current_word_count
    /\ current_units' = EmptyAccumulator.current_units
    /\ branch' = EmptyAccumulator.branch
    /\ steps' = steps \cup {"extract", "partition"}

\* The source is readable by the program's extractor.
Readable == input_exists /\ input_ext = ExtensionOf(program)

\* Extraction of the chapters of an EPUB, followed by the initialisation of the
\* split-point loop.
ExtractChapters(inputs) ==
    /\ pc = "extract"
    /\ program \in EpubPrograms
    /\ Readable
    /\ chapters' \in inputs
    /\ StartLoop
    /\ UNCHANGED <<side_vars, args, program, dir_exists, pages, out_vars, exit_code,
                   error_reported>>

\* extract_text_from_pdf, followed by the initialisation of the loop.
ExtractPages(inputs) ==
    /\ pc = "extract"
    /\ program = PdfProgram
    /\ Readable
    /\ pages' \in inputs
    /\ StartLoop
    /\ UNCHANGED <<side_vars, args, program, dir_exists, chapters, out_vars, exit_code,
                   error_reported>>

\* An extraction that has emitted a first part file when it fails (mutant of
\* ExtractFails).
ExtractFails_AfterPartialOutput ==
    /\ pc = "extract"
    /\ pc' = "raise"
    /\ steps' = steps \cup {"extract"}
    /\ written' = Append(written, [part_num |-> 1, units |-> <<>>])
    /\ UNCHANGED <<side_vars, args, program, dir_exists, chapters, pages, loop_vars,
                   part_start, part_index, output_files, exit_code, error_reported>>

\* The source cannot be opened or parsed: read_epub / PdfReader raises.
ExtractFails ==
    /\ pc = "extract"
    /\ pc' = "raise"
    /\ steps' = steps \cup {"extract"}
    /\ UNCHANGED <<side_vars, args, program, dir_exists, chapters, pages, loop_vars, out_vars,
                   exit_code, error_reported>>

SetAccumulator(acc) ==
    /\ split_points' = acc.split_points
    /\ current_word_count' = acc.current_word_count
    /\ current_units' = acc.current_units
    /\ branch' = acc.branch

\* An iteration that does not move on to the next chapter (mutant of
\* ChapterStep).
ChapterStep_SameIndex ==
    /\ pc = "loop"
    /\ program \in EpubPrograms
    /\ i < Len(chapters)
    /\ SetAccumulator(ChapterLoopBody(program, Accumulator, i,
                                      chapters[i + 1].word_count, max_words, strict))
    /\ i' = i
    /\ UNCHANGED <<side_vars, args, program, dir_exists, chapters, pages, pc, out_vars,
                   exit_code, error_reported, steps>>

\* One iteration of a chapter loop.
ChapterStep ==
    /\ pc = "loop"
    /\ program \in EpubPrograms
    /\ i < Len(chapters)
    /\ SetAccumulator(ChapterLoopBody(program, Accumulator, i,
                                      chapters[i + 1].word_count, max_words, strict))
    /\ i' = i + 1
    /\ UNCHANGED <<side_vars, args, program, dir_exists, chapters, pages, pc, out_vars,
                   exit_code, error_reported, steps>>

\* One iteration of the page loop.
PageStep ==
    /\ pc = "loop"
    /\ program = PdfProgram
    /\ i < Len(pages)
    /\ SetAccumulator(PdfLoopBody(Accumulator, i, pages, max_words, strict,
                                  detect_section_boundaries(pages)))
    /\ i' = i + 1
    /\ UNCHANGED <<side_vars, args, program, dir_exists, chapters, pages, pc, out_vars,
                   exit_code, error_reported, steps>>

\* End of the loop: the last part, and the start of the output loop.
Flush ==
    /\ pc = "loop"
    /\ i = NumUnits
    /\ split_points' = LastPart(Accumulator, NumUnits)
    /\ pc' = "render"
    /\ part_start' = 0
    /\ part_index' = 0
    /\ UNCHANGED <<side_vars, args, program, dir_exists, chapters, pages, i,
                   current_word_count, current_units, branch, written,
                   output_files, exit_code, error_reported, steps>>

\* A slice that leaves out the unit at the split point (mutant of PartUnits).
PartUnits_UpToSplitPoint(n, start, split_point) == Slice(n, start, split_point)

\* units[part_start:split_point + 1]
PartUnits(n, start, split_point) == Slice(n, start, split_point + 1)

PartFile(num, part) == [part_num |-> num, units |-> part]

\* One iteration of the output loop of the EPUB programs.  Writing into a
\* directory that does not exist raises.
WriteChapterPart ==
    /\ pc = "render"
    /\ program \in EpubPrograms
    /\ part_index < Len(split_points)
    /\ LET split_point == split_points[part_index + 1]
           part_chapters == PartUnits(Len(chapters), part_start, split_point)
       IN  IF ~dir_exists
           THEN /\ pc' = "raise"
                /\ UNCHANGED out_vars
           ELSE /\ written' = Append(written, PartFile(part_index + 1, part_chapters))
                /\ output_files' = Append(output_files, part_index + 1)
                /\ part_start' = split_point + 1
                /\ part_index' = part_index + 1
                /\ pc' = pc
    /\ steps' = steps \cup {"render"}
    /\ UNCHANGED <<side_vars, args, program, dir_exists, chapters, pages, loop_vars,
                   exit_code, error_reported>>

\* One iteration of the loop of create_markdown_files.  part_pages[0] raises
\* IndexError on an empty slice, and writing into a directory that does not
\* exist raises; split_pdf re-raises either as an Exception.
WritePagePart ==
    /\ pc = "render"
    /\ program = PdfProgram
    /\ part_index < Len(split_points)
    /\ LET split_point == split_points[part_index + 1]
           part_pages == PartUnits(Len(pages), part_start, split_point)
       IN  IF part_pages = <<>> \/ ~dir_exists
           THEN /\ pc' = "raise"
                /\ UNCHANGED out_vars
           ELSE /\ written' = Append(written, PartFile(part_index + 1, part_pages))
                /\ output_files' = Append(output_files, part_index + 1)
                /\ part_start' = split_point + 1
                /\ part_index' = part_index + 1
                /\ pc' = pc
    /\ steps' = steps \cup {"render"}
    /\ UNCHANGED <<side_vars, args, program, dir_exists, chapters, pages, loop_vars,
                   exit_code, error_reported>>

\* The write of a part fails (open() or write() raises OSError, write_epub
\* raises): the loop is left, the exception reaches the caller of the split
\* function.  The file of this part is absent, or holds a truncated content.
WriteFails ==
    /\ pc = "render"
    /\ part_index < Len(split_points)
    /\ LET part == PartUnits(NumUnits, part_start, split_points[part_index + 1])
       IN  /\ part # <<>>
           /\ \/ written' = written
              \/ \E m \in 0..(Len(part) - 1) :
                    written' = Append(written, PartFile(part_index + 1, SubSeq(part, 1, m)))
    /\ pc' = "raise"
    /\ steps' = steps \cup {"render"}
    /\ UNCHANGED <<side_vars, args, program, dir_exists, chapters, pages, loop_vars,
                   part_start, part_index, output_files, exit_code, error_reported>>

\* return output_files
Return ==
    /\ pc = "render"
    /\ part_index = Len(split_points)
    /\ pc' = "return"
    /\ UNCHANGED <<side_vars, args, program, dir_exists, chapters, pages, loop_vars, out_vars,
                   exit_code, error_reported, steps>>

----------------------------------------------------------------------------
(* Spec: the split functions of the four EPUB programs, positive max_words *)

\* The state at the call of a program's split function on a readable source.
InitCall(programs, budgets) ==
    /\ cli = FALSE
    /\ program \in programs
    /\ module = ModuleOf(program)
    /\ input_exists = TRUE
    /\ input_ext = ExtensionOf(program)
    /\ output_format = IF program = "epub_processor" THEN "epub" ELSE "markdown"
    /\ max_words \in budgets
    /\ strict \in BOOLEAN
    /\ dir_exists = TRUE
    /\ chapters = <<>>
    /\ pages = <<>>
    /\ pc = "extract"
    /\ i = 0
    /\ split_points = <<>>
    /\ current_word_count = 0
    /\ current_units = <<>>
    /\ part_start = 0
    /\ part_index = 0
    /\ written = <<>>
    /\ output_files = <<>>
    /\ exit_code = None
    /\ error_reported = FALSE
    /\ branch = "none"
    /\ steps = {}
    /\ boundaries = <<>>
    /\ copies = NoCopies
    /\ first_call = NoCall

Init == InitCall(EpubPrograms, 1..MaxWords)

Next ==
    \/ ExtractChapters(ChapterInputs)
    \/ ChapterStep
    \/ Flush
    \/ WriteChapterPart
    \/ Return

Spec == Init /\ [][Next]_vars

----------------------------------------------------------------------------
(* SpecPdf: pdf_to_markdown.split_pdf, positive max_words *)

InitPdf == InitCall({PdfProgram}, 1..MaxPageBudget)

NextPdf ==
    \/ ExtractPages(PageInputs)
    \/ PageStep
    \/ Flush
    \/ WritePagePart
    \/ Return

SpecPdf == InitPdf /\ [][NextPdf]_vars

----------------------------------------------------------------------------
(* SpecAll: the split functions of all five programs, positive max_words *)

InitAll == Init \/ InitPdf

NextAll ==
    \/ ExtractChapters(ChapterInputs)
    \/ ExtractPages(PageInputs)
    \/ ChapterStep
    \/ PageStep
    \/ Flush
    \/ WriteChapterPart
    \/ WritePagePart
    \/ Return

SpecAll == InitAll /\ [][NextAll]_vars

----------------------------------------------------------------------------
(* SpecRun: whole runs, from main() or from a call of the split function *)

InputExtensions == {".epub", ".pdf", ".txt"}

\* The checks every main() makes before it calls its split function, in the
\* order of the source: the input file exists, has an accepted extension, the
\* output directory exists or can be created, max_words is positive.
CheckArguments(accepted, exists, ext, dir_ex, makedirs_ok, maxw) ==
    IF ~exists \/ ext \notin accepted
    THEN [valid |-> FALSE, dir_exists |-> dir_ex, makedirs |-> FALSE]
    ELSE IF ~dir_ex /\ ~makedirs_ok
    THEN [valid |-> FALSE, dir_exists |-> FALSE, makedirs |-> TRUE]
    ELSE [valid |-> maxw > 0, dir_exists |-> TRUE, makedirs |-> ~dir_ex]

\* Checks that leave out the max_words test (mutant of MainValidation).
MainValidation_NoBudgetCheck(m, exists, ext, dir_ex, makedirs_ok, maxw) ==
    CheckArguments(IF m = "splitter" THEN {".epub", ".pdf"}
                   ELSE IF m = "pdf_to_markdown" THEN {".pdf"} ELSE {".epub"},
                   exists, ext, dir_ex, makedirs_ok, 1)

\* The validation block of module m's main().
MainValidation(m, exists, ext, dir_ex, makedirs_ok, maxw) ==
    CASE m = "splitter" ->
            CheckArguments({".epub", ".pdf"}, exists, ext, dir_ex, makedirs_ok, maxw)
      [] m = "pdf_to_markdown" ->
            CheckArguments({".pdf"}, exists, ext, dir_ex, makedirs_ok, maxw)
      [] OTHER ->
            CheckArguments({".epub"}, exists, ext, dir_ex, makedirs_ok, maxw)

MainValidate ==
    /\ pc = "main"
    /\ \E makedirs_ok \in BOOLEAN :
          LET r == MainValidation(module, input_exists, input_ext, dir_exists,
                                  makedirs_ok, max_words)
          IN  /\ dir_exists' = r.dir_exists
              /\ steps' = IF r.makedirs THEN steps \cup {"makedirs"} ELSE steps
              /\ IF r.valid
                 THEN /\ pc' = "call"
                      /\ UNCHANGED <<exit_code, error_reported>>
                 ELSE /\ pc' = "exit"
                      /\ exit_code' = 1
                      /\ error_reported' = TRUE
    /\ UNCHANGED <<side_vars, args, program, chapters, pages, loop_vars, out_vars>>

\* output_format.lower()
Lower(format) == IF format = "EPUB" THEN "epub" ELSE format

\* A dispatch that sends every PDF input to the page pipeline (mutant of
\* split_book_target).
split_book_target_AnyPdf(ext, format) ==
    IF ext = ".pdf" THEN PdfProgram
    ELSE IF ext = ".epub" /\ Lower(format) = "markdown" THEN "epub_to_markdown"
    ELSE IF ext = ".epub" /\ Lower(format) = "epub" THEN "epub_processor"
    ELSE NoProgram

\* splitter.split_book: the pipeline it calls, NoProgram when it prints an
\* error and returns [].
split_book_target(ext, format) ==
    IF ext \notin {".epub", ".pdf"} THEN NoProgram
    ELSE IF Lower(format) \notin {"markdown", "epub", "pdf"} THEN NoProgram
    ELSE IF ext = ".epub" /\ Lower(format) = "markdown" THEN "epub_to_markdown"
    ELSE IF ext = ".epub" /\ Lower(format) = "epub" THEN "epub_processor"
    ELSE IF ext = ".pdf" /\ Lower(format) = "markdown" THEN PdfProgram
    ELSE NoProgram

\* split_book.  The import of the pipeline's module can fail (ImportError);
\* split_book then prints an error and returns [] as well.
SplitBookCall ==
    /\ pc = "call"
    /\ module = "splitter"
    /\ \E importable \in BOOLEAN :
          LET target == split_book_target(input_ext, output_format)
          IN  IF target # NoProgram /\ importable
              THEN /\ program' = target
                   /\ pc' = "extract"
                   /\ steps' = steps \cup {"import"}
                   /\ UNCHANGED error_reported
              ELSE /\ pc' = "return"
                   /\ error_reported' = TRUE
                   /\ UNCHANGED <<program, steps>>
    /\ UNCHANGED <<side_vars, args, dir_exists, chapters, pages, loop_vars, out_vars, exit_code>>

\* The call of the split function of any other module.
DirectCall ==
    /\ pc = "call"
    /\ module # "splitter"
    /\ program' = ProgramOf(module)
    /\ pc' = "extract"
    /\ UNCHANGED <<side_vars, args, dir_exists, chapters, pages, loop_vars, out_vars, exit_code,
                   error_reported, steps>>

\* An exit code that looks at the result only (mutant of MainExitCode).
MainExitCode_IgnoresException(m, raised, result) ==
    IF m = "splitter" /\ result = <<>> THEN 1 ELSE 0

\* The exit code of module m's main() after its split function returned
\* result, or raised.
MainExitCode(m, raised, result) ==
    IF raised THEN 1
    ELSE IF m = "splitter" THEN (IF result # <<>> THEN 0 ELSE 1)
    ELSE 0

MainFinish ==
    /\ cli
    /\ pc \in {"return", "raise"}
    /\ exit_code' = MainExitCode(module, pc = "raise", output_files)
    /\ error_reported' = (error_reported \/ pc = "raise")
    /\ pc' = "exit"
    /\ UNCHANGED <<side_vars, args, program, dir_exists, chapters, pages, loop_vars, out_vars,
                   steps>>

RunBudgets == {0 - 1, 0} \cup 1..RunMaxWords

\* The formats main() accepts (argparse choices), and what a caller of
\* split_book may pass.
FormatChoices == {"markdown", "epub", "pdf"}

CallerFormats == FormatChoices \cup {"EPUB", "html"}

InitRun ==
    /\ cli \in BOOLEAN
    /\ module \in Modules
    /\ input_exists \in BOOLEAN
    /\ input_ext \in InputExtensions
    /\ output_format \in
          IF module # "splitter" THEN {"markdown"}
          ELSE IF cli THEN FormatChoices ELSE CallerFormats
    /\ max_words \in RunBudgets
    /\ strict \in BOOLEAN
    /\ dir_exists \in BOOLEAN
    /\ program = NoProgram
    /\ chapters = <<>>
    /\ pages = <<>>
    /\ pc = IF cli THEN "main" ELSE "call"
    /\ i = 0
    /\ split_points = <<>>
    /\ current_word_count = 0
    /\ current_units = <<>>
    /\ part_start = 0
    /\ part_index = 0
    /\ written = <<>>
    /\ output_files = <<>>
    /\ exit_code = None
    /\ error_reported = FALSE
    /\ branch = "none"
    /\ steps = {}
    /\ boundaries = <<>>
    /\ copies = NoCopies
    /\ first_call = NoCall

NextRun ==
    \/ MainValidate
    \/ SplitBookCall
    \/ DirectCall
    \/ ExtractChapters(RunChapterInputs)
    \/ ExtractPages(RunPageInputs)
    \/ ExtractFails
    \/ ChapterStep
    \/ PageStep
    \/ Flush
    \/ WriteChapterPart
    \/ WritePagePart
    \/ WriteFails
    \/ Return
    \/ MainFinish

SpecRun == InitRun /\ [][NextRun]_vars

----------------------------------------------------------------------------
(* FairSpecRun: SpecRun with a split-point loop that keeps running *)

\* The for loop and the statement after it are straight-line code of one
\* thread: an iteration that can run does run, and so does the last-part step.
FairSpecRun ==
    /\ InitRun
    /\ [][NextRun]_vars
    /\ WF_vars(ChapterStep)
    /\ WF_vars(PageStep)
    /\ WF_vars(Flush)

-----------------------------------------------------------------------------

(* SpecDetect: detect_section_boundaries, page by page *)

DetectMaxLines == 6

\* Lines without a heading pattern, by their length after strip().
PlainLines == {[len |-> n, pattern |-> NoPattern] : n \in {0, 3, 4, 49, 50}}

\* Lines that start with a heading pattern: "chapter 1", "1. intro" and so
\* on, and a long line that starts with "chapter 1".
HeadingLines ==
    {[len |-> 9, pattern |-> ChapterPatterns[k]] : k \in 1..Len(ChapterPatterns)}
        \cup {[len |-> 60, pattern |-> "chapter"]}

LinesAround == {BlankLine, [len |-> 4, pattern |-> NoPattern], BodyLine}

\* text.split('\n') of the page texts: lists of one line or more (the empty
\* text splits into one empty line).  Texts of up to three lines of any
\* length, longer texts of blank, short and long lines, and texts with one
\* heading line.
DetectTexts(max_lines) ==
    UNION {[1..n -> PlainLines] : n \in 1..3}
      \cup UNION {[1..n -> LinesAround] : n \in 1..max_lines}
      \cup UNION {{[k \in 1..n |-> IF k = at THEN h ELSE around[k]] :
                     at \in 1..n, h \in HeadingLines, around \in [1..n -> LinesAround]} :
                  n \in 1..max_lines}

EmptyText == <<BlankLine>>

PlainPage == [text |-> PlainText, word_count |-> 1]

\* Documents of one page, or of a page of running text and one more page.
DetectInputs(max_lines) ==
    {prefix \o <<[text |-> t, word_count |-> 1]>> :
        prefix \in {<<>>, <<PlainPage>>}, t \in DetectTexts(max_lines)}

InitDetect ==
    /\ cli = FALSE
    /\ module = "pdf_to_markdown"
    /\ program = PdfProgram
    /\ input_exists = TRUE
    /\ input_ext = ".pdf"
    /\ output_format = "markdown"
    /\ max_words = 1
    /\ strict = FALSE
    /\ dir_exists = TRUE
    /\ chapters = <<>>
    /\ pages \in DetectInputs(DetectMaxLines)
    /\ pc = "detect"
    /\ i = 0
    /\ split_points = <<>>
    /\ current_word_count = 0
    /\ current_units = <<>>
    /\ part_start = 0
    /\ part_index = 0
    /\ written = <<>>
    /\ output_files = <<>>
    /\ exit_code = None
    /\ error_reported = FALSE
    /\ branch = "none"
    /\ steps = {}
    /\ boundaries = <<>>
    /\ copies = NoCopies
    /\ first_call = NoCall

\* One iteration of "for i, page in enumerate(pages)".
DetectPage ==
    /\ pc = "detect"
    /\ i < Len(pages)
    /\ boundaries' = boundaries \o ScanLines(FirstLines(pages[i + 1].text), 1, i)
    /\ i' = i + 1
    /\ UNCHANGED <<copies, first_call, args, program, dir_exists, chapters, pages, pc,
                   split_points,
                   current_word_count, current_units, branch, out_vars, exit_code,
                   error_reported, steps>>

\* return boundaries
DetectReturn ==
    /\ pc = "detect"
    /\ i = Len(pages)
    /\ pc' = "detected"
    /\ UNCHANGED <<side_vars, args, program, dir_exists, chapters, pages, loop_vars,
                   out_vars, exit_code, error_reported, steps>>

NextDetect ==
    \/ DetectPage
    \/ DetectReturn

SpecDetect == InitDetect /\ [][NextDetect]_vars

----------------------------------------------------------------------------
(* SpecProcess: process() called twice on one EPUBProcessor instance *)

\* A second call of process() on the instance whose first call has returned,
\* up to the start of the split-point loop.  read_epub reads the unchanged
\* file again and extract_chapters appends its chapters to self.chapters,
\* which __init__ alone empties; self.output_files is not emptied either.
ProcessAgain ==
    /\ pc = "return"
    /\ program = "epub_processor"
    /\ first_call.calls = 0
    /\ first_call' = [calls |-> 1, chapters |-> chapters,
                      split_points |-> split_points,
                      output_files |-> output_files]
    /\ chapters' = chapters \o chapters
    /\ StartLoop
    /\ UNCHANGED <<boundaries, copies, args, program, dir_exists, pages, out_vars,
                   exit_code, error_reported>>

InitProcess == InitCall({"epub_processor"}, 1..RunMaxWords)

NextProcess ==
    \/ ExtractChapters(RunChapterInputs)
    \/ ChapterStep
    \/ Flush
    \/ WriteChapterPart
    \/ Return
    \/ ProcessAgain

SpecProcess == InitProcess /\ [][NextProcess]_vars

-----------------------------------------------------------------------------

(* SpecLoops: the split-point loops of the five programs, run side by side *)
(* on the same word counts, max_words and strict flag                      *)

LoopPrograms == EpubPrograms \cup {PdfProgram}

\* The pages with the word counts of the chapters; no page opens with a heading.
PagesLike(chs) == [k \in 1..Len(chs) |-> [text |-> PlainText, word_count |-> chs[k].word_count]]

\* One iteration of the loop of program prog.
LoopBodyOf(prog, acc, idx, chs, pgs, maxw, strict_flag) ==
    IF prog = PdfProgram
    THEN PdfLoopBody(acc, idx, pgs, maxw, strict_flag, detect_section_boundaries(pgs))
    ELSE ChapterLoopBody(prog, acc, idx, chs[idx + 1].word_count, maxw, strict_flag)

InitLoops ==
    /\ cli = FALSE
    /\ module = "splitter"
    /\ program = NoProgram
    /\ input_exists = TRUE
    /\ input_ext = ".epub"
    /\ output_format = "markdown"
    /\ max_words \in 1..MaxWords
    /\ strict \in BOOLEAN
    /\ dir_exists = TRUE
    /\ chapters \in ChapterInputs
    /\ pages = PagesLike(chapters)
    /\ pc = "loops"
    /\ i = 0
    /\ split_points = <<>>
    /\ current_word_count = 0
    /\ current_units = <<>>
    /\ part_start = 0
    /\ part_index = 0
    /\ written = <<>>
    /\ output_files = <<>>
    /\ exit_code = None
    /\ error_reported = FALSE
    /\ branch = "none"
    /\ steps = {}
    /\ boundaries = <<>>
    /\ copies = [prog \in LoopPrograms |-> EmptyAccumulator]
    /\ first_call = NoCall

\* Every loop handles unit i.
LoopsStep ==
    /\ pc = "loops"
    /\ i < Len(chapters)
    /\ copies' = [prog \in LoopPrograms |->
                    LoopBodyOf(prog, copies[prog], i, chapters, pages, max_words, strict)]
    /\ i' = i + 1
    /\ UNCHANGED <<boundaries, first_call, args, program, dir_exists, chapters, pages, pc,
                   split_points, current_word_count, current_units, branch, out_vars,
                   exit_code, error_reported, steps>>

\* Every loop is over: the last part.
LoopsFlush ==
    /\ pc = "loops"
    /\ i = Len(chapters)
    /\ copies' = [prog \in LoopPrograms |->
                    [copies[prog] EXCEPT
                        !.split_points = LastPart(copies[prog], Len(chapters))]]
    /\ pc' = "loops_done"
    /\ UNCHANGED <<boundaries, first_call, args, program, dir_exists, chapters, pages,
                   loop_vars, out_vars, exit_code, error_reported, steps>>

NextLoops ==
    \/ LoopsStep
    \/ LoopsFlush

SpecLoops == InitLoops /\ [][NextLoops]_vars

----------------------------------------------------------------------------
(* Vocabulary of the properties *)

StrictlyIncreasing(s) == \A k \in 1..(Len(s) - 1) : s[k] < s[k + 1]

NonDecreasing(s) == \A k \in 1..(Len(s) - 1) : s[k] <= s[k + 1]

\* 0, 1, ..., n-1
Indices(n) == [k \in 1..n |-> k - 1]

\* The index ranges [previous split point + 1 .. split point], in order.
SplitParts(sp, n) ==
    [k \in 1..Len(sp) |-> Slice(n, IF k = 1 THEN 0 ELSE sp[k - 1] + 1, sp[k] + 1)]

RECURSIVE Flatten(_)
Flatten(ss) == IF ss = <<>> THEN <<>> ELSE Head(ss) \o Flatten(Tail(ss))

\* Total word count of the units with the given indices.
UnitWords(idxs) == SumSeq([k \in 1..Len(idxs) |-> WordCount(idxs[k])])

\* The split-point list is final: the loop and the last-part step are over.
SplitPointsReturned == "partition" \in steps /\ pc \in {"render", "return", "raise", "exit"}

Parts == SplitParts(split_points, NumUnits)

\* The parts that contain unit idx.
PartsOf(idx) == {k \in 1..Len(Parts) : \E j \in 1..Len(Parts[k]) : Parts[k][j] = idx}

Oversized(idx) == WordCount(idx) > max_words

AllButLast(s) == SubSeq(s, 1, Len(s) - 1)

----------------------------------------------------------------------------
(* Properties *)

\* C1: chapter-based split points are strictly increasing, end at n-1 when
\* n > 0, and their slices [previous + 1 .. split point], in order, are
\* exactly the unit indices 0..n-1, each once, in the original order.
C1_ChapterCoverage ==
    (program \in EpubPrograms /\ SplitPointsReturned) =>
        /\ StrictlyIncreasing(split_points)
        /\ (NumUnits > 0 => split_points # <<>> /\ Last(split_points) = NumUnits - 1)
        /\ Flatten(Parts) = Indices(NumUnits)

\* A run that returned three parts of three chapters.
C1_Witness ==
    /\ program \in EpubPrograms
    /\ pc = "return"
    /\ Len(chapters) = 3
    /\ split_points = <<0, 1, 2>>

\* C2: page-based split points never decrease, end at n-1 when n > 0, and the
\* slices pages[previous + 1 .. split point], concatenated in order, are the
\* full page sequence.
C2_PageCoverage ==
    (program = PdfProgram /\ SplitPointsReturned) =>
        /\ NonDecreasing(split_points)
        /\ (NumUnits > 0 => split_points # <<>> /\ Last(split_points) = NumUnits - 1)
        /\ Flatten(Parts) = Indices(NumUnits)

\* A strict run over six pages in which a boundary was used as split point.
C2_Witness ==
    /\ program = PdfProgram
    /\ pc \in {"render", "return", "raise"}
    /\ strict
    /\ Len(pages) = 6
    /\ Len(split_points) >= 3
    /\ \E k \in 1..Len(split_points) :
          split_points[k] \in Range(detect_section_boundaries(pages))

\* C3: no emitted partition is empty: every split point is strictly greater
\* than the previous one, and create_markdown_files never fails on an empty
\* page slice.
C3_NoEmptyPartition ==
    /\ SplitPointsReturned => StrictlyIncreasing(split_points)
    /\ SplitPointsReturned => \A k \in 1..Len(Parts) : Parts[k] # <<>>
    /\ pc # "raise"

C5_ThresholdPath ==
    /\ \A prog \in EpubPrograms :
          chapter_split_points(prog, [k \in 1..3 |-> [word_count |-> 30000]],
                               80000, FALSE) = <<1, 2>>
    /\ [][(/\ program \in EpubPrograms
           /\ pc = "loop"
           /\ i < Len(chapters)
           /\ ~strict
           /\ current_units # <<>>
           /\ current_word_count + chapters[i + 1].word_count > max_words
           /\ 5 * current_word_count >= 2 * max_words)
          => (/\ split_points' = Append(split_points, i - 1)
              /\ current_units' = <<i>>
              /\ current_word_count' = chapters[i + 1].word_count)]_vars

\* The threshold path was just taken with the accumulator at exactly 40% of
\* max_words.
C5_Witness ==
    /\ program \in EpubPrograms
    /\ pc = "loop"
    /\ ~strict
    /\ branch = "split_before"
    /\ 5 * UnitWords(Slice(NumUnits, IF Len(split_points) = 1 THEN 0
                                     ELSE split_points[Len(split_points) - 1] + 1,
                           i - 1))
          = 2 * max_words

\* C6: strict chapter mode never appends a unit to a non-empty accumulator
\* beyond max_words: the absorb-and-split path is never taken, an accumulator
\* or partition of two or more units holds at most max_words words, and
\* [30000, 30000, 30000] with max_words = 50000 gives partitions [0], [1], [2].
C6_StrictMode ==
    /\ \A prog \in EpubPrograms :
          chapter_split_points(prog, [k \in 1..3 |-> [word_count |-> 30000]],
                               50000, TRUE) = <<0, 1, 2>>
    /\ (program \in EpubPrograms /\ strict /\ "partition" \in steps) =>
          /\ branch # "absorb"
          /\ Len(current_units) >= 2 => UnitWords(current_units) <= max_words
          /\ SplitPointsReturned =>
                \A k \in 1..Len(Parts) :
                    Len(Parts[k]) >= 2 => UnitWords(Parts[k]) <= max_words

\* A strict run that closed a partition of two chapters before an overflow.
C6_Witness ==
    /\ program \in EpubPrograms
    /\ strict
    /\ pc = "return"
    /\ Len(split_points) = 2
    /\ Len(Parts[1]) = 2
    /\ UnitWords(Parts[1]) + WordCount(2) > max_words

\* The stages in which a pipeline works on the source or the output.
PipelineSteps == {"import", "extract", "partition", "render"}

\* C7: a unit sequence of length zero gives an empty split-point list without
\* raising, whatever max_words and the strict flag are, and no file is written.
C7_EmptyInput ==
    ("partition" \in steps /\ NumUnits = 0) =>
        /\ split_points = <<>>
        /\ written = <<>>
        /\ output_files = <<>>
        /\ pc \in {"loop", "render", "return", "exit"}
        /\ pc = "exit" => exit_code # None

\* The page program returned from a document without pages, called with a
\* non-positive max_words.
C7_Witness ==
    /\ program = PdfProgram
    /\ "partition" \in steps
    /\ pages = <<>>
    /\ max_words <= 0
    /\ pc = "return"

\* C8: a split function called with max_words <= 0 computes no split point and
\* writes no file (it fails with a configuration error).
C8_RejectsNonPositiveBudget ==
    (~cli /\ max_words <= 0) =>
        /\ split_points = <<>>
        /\ written = <<>>
        /\ ~(pc = "return" /\ "partition" \in steps)

\* C9: in every main(), max_words <= 0 ends the run with a non-zero exit code
\* before any extraction step starts, and no part file is written.
C9_CliRejectsNonPositiveBudget ==
    (cli /\ max_words <= 0) =>
        /\ pc \in {"main", "exit"}
        /\ pc = "exit" => exit_code \notin {None, 0}
        /\ steps \cap PipelineSteps = {}
        /\ written = <<>>

\* A main() that created the output directory and then exited on max_words.
C9_Witness ==
    /\ cli
    /\ max_words <= 0
    /\ pc = "exit"
    /\ exit_code = 1
    /\ dir_exists
    /\ "makedirs" \in steps

UnimplementedCombinations == {<<".pdf", "pdf">>, <<".epub", "pdf">>, <<".pdf", "epub">>}

\* The one pipeline of each implemented combination.
PipelineOf(ext, format) ==
    CASE ext = ".epub" /\ format = "markdown" -> "epub_to_markdown"
      [] ext = ".epub" /\ format = "epub" -> "epub_processor"
      [] ext = ".pdf" /\ format = "markdown" -> PdfProgram
      [] OTHER -> NoProgram

\* C10: in the unified splitter an unimplemented combination calls no
\* extractor, partitioner or renderer, reports an error, returns no files and
\* makes main() exit non-zero; an implemented combination runs exactly its own
\* pipeline (once split_book has imported it) and no other.
C10_UnifiedDispatch ==
    module = "splitter" =>
        LET combination == <<input_ext, Lower(output_format)>>
            expected == PipelineOf(input_ext, Lower(output_format))
        IN  /\ combination \in UnimplementedCombinations =>
                /\ program = NoProgram
                /\ steps \cap PipelineSteps = {}
                /\ written = <<>> /\ output_files = <<>>
                /\ pc \in {"main", "call", "return", "exit"}
                /\ pc \in {"return", "exit"} => error_reported
                /\ pc = "exit" => exit_code = 1
            /\ expected # NoProgram =>
                /\ program \in {NoProgram, expected}
                /\ "import" \in steps => program = expected
                /\ (steps \cap {"extract", "partition", "render"} # {}) =>
                      "import" \in steps
                /\ (pc \in {"return", "raise", "exit"} /\ "import" \notin steps) =>
                      error_reported /\ written = <<>>

\* main() of the unified splitter exited non-zero on PDF input with epub
\* output, after its validation passed.
C10_Witness ==
    /\ module = "splitter"
    /\ cli
    /\ input_exists
    /\ input_ext = ".pdf"
    /\ output_format = "epub"
    /\ max_words > 0
    /\ dir_exists
    /\ pc = "exit"
    /\ exit_code = 1
    /\ error_reported

\* C11: when the unified CLI ends with an unsupported-conversion error, the
\* filesystem is as it was: main() created no output directory and no file
\* was written.
C11_UnsupportedNoSideEffects ==
    (/\ cli
     /\ module = "splitter"
     /\ pc = "return"
     /\ program = NoProgram
     /\ <<input_ext, Lower(output_format)>> \in UnimplementedCombinations)
        => /\ "makedirs" \notin steps
           /\ written = <<>>

\* C12: a main() exits with code 0 exactly when the run had no validation or
\* processing failure (no error was reported); in particular a readable
\* document with zero units exits 0 in every module, the unified splitter
\* included.
C12_ExitCodeZeroIffNoFailure ==
    (cli /\ pc = "exit") =>
        /\ exit_code # None
        /\ exit_code = 0 <=> ~error_reported
        /\ ("partition" \in steps /\ NumUnits = 0 /\ ~error_reported) => exit_code = 0

\* The lines the detector looks at: the first five of the text.
Flagged(idx) == idx \in Range(boundaries)

PatternInFirstFive(text) ==
    \E k \in 1..Len(text) : k <= 5 /\ MatchesChapterPattern(text[k])

\* The title rule as the specification states it: at least two lines, first
\* line 4 to 49 characters, second line blank.
TitleRule(text) ==
    /\ Len(text) >= 2
    /\ text[1].len >= 4 /\ text[1].len <= 49
    /\ text[2].len = 0

\* C13: a page none of whose first five lines matches a heading pattern is
\* flagged exactly when it has two lines or more, a first line of 4 to 49
\* characters and a blank second line; a first line of 60 (here 50)
\* characters is never flagged, whatever follows.
C13_TitleRule ==
    pc = "detected" =>
        \A idx \in 0..(Len(pages) - 1) :
            LET text == pages[idx + 1].text
            IN  ~PatternInFirstFive(text) => (Flagged(idx) <=> TitleRule(text))

\* One of the first five lines passes the short-heading test of the source.
ShortHeadingInFirstFive(text) ==
    \E k \in 1..Len(text) : k <= 5 /\ ShortHeading(FirstLines(text), text[k])

\* C14: a page is flagged whenever one of its first five lines starts with one
\* of the four heading patterns; a page flagged has a flagging line among its
\* first five (a later line never flags); a page with empty text is never
\* flagged; the detector returns (the empty list when nothing matches) and
\* never raises.
C14_PatternRule ==
    /\ pc # "raise"
    /\ pc = "detected" =>
          /\ \A idx \in 0..(Len(pages) - 1) :
                LET text == pages[idx + 1].text
                IN  /\ PatternInFirstFive(text) => Flagged(idx)
                    /\ Flagged(idx) =>
                          PatternInFirstFive(text) \/ ShortHeadingInFirstFive(text)
                    /\ text = EmptyText => ~Flagged(idx)
          /\ (\A idx \in 0..(Len(pages) - 1) :
                  LET text == pages[idx + 1].text
                  IN  ~PatternInFirstFive(text) /\ ~ShortHeadingInFirstFive(text))
                => boundaries = <<>>

\* The detector returned after flagging the second page for a "part N" line in
\* fifth position, on a text with a sixth line.
C14_Witness ==
    /\ pc = "detected"
    /\ Len(pages) = 2
    /\ Len(pages[2].text) = 6
    /\ pages[2].text[5].pattern = "part"
    /\ boundaries = <<1>>

\* The output loop was left by an exception before it reached its end.
WriteFailed ==
    /\ "render" \in steps
    /\ pc \in {"raise", "exit"}
    /\ part_index < Len(split_points)

\* C15: when the write of part k fails (k = part_index + 1), the files of parts
\* 1..k-1 are there with exactly the units of their partitions, no file of a
\* part after k exists, the split function raised, and a main() exits 1 with
\* an error message.
C15_WriteFailureKeepsEarlierParts ==
    WriteFailed =>
        /\ Len(written) \in {part_index, part_index + 1}
        /\ \A n \in 1..part_index : written[n] = PartFile(n, Parts[n])
        /\ \A n \in 1..Len(written) : written[n].part_num = n
        /\ Len(output_files) = part_index
        /\ ~cli => pc = "raise"
        /\ pc = "exit" => exit_code = 1 /\ error_reported

\* A main() exited after the write of part 2 failed and left a truncated file.
C15_Witness ==
    /\ WriteFailed
    /\ cli
    /\ pc = "exit"
    /\ part_index = 1
    /\ Len(written) = 2
    /\ written[1].units # <<>>

\* The split-point list the program's partitioner computes for the extracted
\* units.
FinalSplitPoints ==
    IF program = PdfProgram THEN determine_split_points(pages, max_words, strict)
    ELSE chapter_split_points(program, chapters, max_words, strict)

\* Extraction of the source failed.
ExtractionFailed ==
    /\ "extract" \in steps
    /\ "partition" \notin steps
    /\ pc \in {"raise", "exit"}

\* C16: a part file exists only after every unit was extracted and the whole
\* split-point list was determined; when extraction fails the run ends with
\* an error and without any output file.
C16_PipelineOrdering ==
    /\ (written # <<>> \/ "render" \in steps) =>
          /\ {"extract", "partition"} \subseteq steps
          /\ pc \in {"render", "return", "raise", "exit"}
          /\ i = NumUnits
          /\ split_points = FinalSplitPoints
    /\ pc \in {"extract", "loop"} => written = <<>> /\ output_files = <<>>
    /\ ExtractionFailed =>
          /\ written = <<>> /\ output_files = <<>>
          /\ ~cli => pc = "raise"
          /\ pc = "exit" => exit_code = 1 /\ error_reported

\* A main() exited 1 after the extraction of its source failed.
C16_Witness ==
    /\ ExtractionFailed
    /\ cli
    /\ pc = "exit"
    /\ exit_code = 1
    /\ written = <<>>

\* C17: a run that returned with k partitions wrote exactly k files, numbered
\* 1..k in that order; file N holds exactly the units of the N-th partition in
\* their original order, and the returned list names the same k files in the
\* same order.
C17_OutputNumbering ==
    pc = "return" /\ "partition" \in steps =>
        /\ Len(written) = Len(split_points)
        /\ \A n \in 1..Len(written) :
              /\ written[n].part_num = n
              /\ written[n].units =
                    Slice(NumUnits, IF n = 1 THEN 0 ELSE split_points[n - 1] + 1,
                          split_points[n] + 1)
        /\ output_files = [n \in 1..Len(split_points) |-> n]

\* The page program returned after writing three parts or more, the second of
\* them with two pages or more.
C17_Witness ==
    /\ program = PdfProgram
    /\ pc = "return"
    /\ Len(written) >= 3
    /\ Len(written[2].units) >= 2
    /\ Len(output_files) = Len(written)

\* The units reduced to their word counts.
WordCountsOnly(units) == [k \in 1..Len(units) |-> units[k].word_count]

\* The split points as a function of word counts, detected boundaries,
\* max_words and the strict flag alone.
SplitPointsOf(chapter_based, word_counts, section_boundaries, maxw, strict_flag) ==
    IF chapter_based
    THEN chapter_split_points("epub_processor",
                              [k \in 1..Len(word_counts) |-> [word_count |-> word_counts[k]]],
                              maxw, strict_flag)
    ELSE LastPart(PdfLoopFrom(EmptyAccumulator, 0,
                              [k \in 1..Len(word_counts) |->
                                  [text |-> PlainText, word_count |-> word_counts[k]]],
                              maxw, strict_flag, section_boundaries),
                  Len(word_counts))

FlaggedUpTo(idx) == {b \in Range(detect_section_boundaries(pages)) : b <= idx}

\* Page i overflows a non-empty accumulator.
PageOverflow ==
    /\ program = PdfProgram
    /\ pc = "loop"
    /\ i < Len(pages)
    /\ current_units # <<>>
    /\ current_word_count + pages[i + 1].word_count > max_words

\* The boundary-aware path applies to page i: strict, a flagged index b <= i
\* exists and the largest one is inside the look-back window.
BoundaryPathApplies ==
    /\ PageOverflow
    /\ strict
    /\ FlaggedUpTo(i) # {}
    /\ SetMax(FlaggedUpTo(i)) > i - 5

\* C19: on the boundary-aware path with qualifying boundary b the previous
\* partition is closed at b-1, the accumulator becomes pages b..i-1 with their
\* word counts summed, and page i then goes through the overflow check against
\* that accumulator: split at i-1 when it overflows, appended otherwise.
C19_BoundaryPathClosesBeforeBoundary ==
    [][BoundaryPathApplies =>
          LET b == SetMax(FlaggedUpTo(i))
              word_count == pages[i + 1].word_count
              reset_units == Slice(Len(pages), b, i)
              reset_count == PageWords(pages, reset_units)
              closed == Append(split_points, b - 1)
          IN  IF reset_count + word_count > max_words /\ reset_units # <<>>
              THEN /\ split_points' = Append(closed, i - 1)
                   /\ current_units' = <<i>>
                   /\ current_word_count' = word_count
              ELSE /\ split_points' = closed
                   /\ current_units' = Append(reset_units, i)
                   /\ current_word_count' = reset_count + word_count]_vars

C21_PageLoopMatchesChapterLoop ==
    (pc = "loops_done" /\ detect_section_boundaries(pages) = <<>>) =>
        copies[PdfProgram].split_points = copies["epub_processor"].split_points

\* C29: the four chapter loops, run step by step on the same word counts,
\* max_words and strict flag, hold the same accumulator and the same split
\* points after every unit, and return the same split points.
C29_ChapterCopiesEquivalent ==
    pc \in {"loops", "loops_done"} =>
        \A prog \in EpubPrograms :
            /\ copies[prog].current_word_count = copies["epub_processor"].current_word_count
            /\ copies[prog].current_units = copies["epub_processor"].current_units
            /\ copies[prog].split_points = copies["epub_processor"].split_points

\* The four loops returned two partitions of three units after an
\* absorb-and-split.
C29_Witness ==
    /\ pc = "loops_done"
    /\ ~strict
    /\ Len(chapters) = 3
    /\ \A prog \in EpubPrograms : copies[prog].split_points = <<1, 2>>
    /\ 5 * chapters[1].word_count < 2 * max_words

\* C22: non-strict chapter loop, accumulator non-empty, unit i overflows and
\* the accumulator holds less than 40% of max_words: unit i is appended, the
\* partition is closed at i with more than max_words words, and the
\* accumulator is empty with word count 0, so unit i+1 starts the next
\* partition.
C22_AbsorbAndSplit ==
    [][(/\ program \in EpubPrograms
        /\ pc = "loop"
        /\ i < Len(chapters)
        /\ ~strict
        /\ current_units # <<>>
        /\ current_word_count + chapters[i + 1].word_count > max_words
        /\ 5 * current_word_count < 2 * max_words)
          => (/\ split_points' = Append(split_points, i)
              /\ current_units' = <<>>
              /\ current_word_count' = 0
              /\ i' = i + 1
              /\ UnitWords(Append(current_units, i)) > max_words
              /\ Append(current_units, i) =
                    Slice(NumUnits, IF split_points = <<>> THEN 0
                                    ELSE Last(split_points) + 1, i + 1))]_vars

\* An absorb-and-split was just taken on the second unit, and a third unit
\* is left to start the next partition.
C22_Witness ==
    /\ program \in EpubPrograms
    /\ pc = "loop"
    /\ ~strict
    /\ branch = "absorb"
    /\ split_points = <<1>>
    /\ current_units = <<>>
    /\ i = 2
    /\ Len(chapters) = 3

\* C23: first-unit rule.  In every variant, a step of the split-point loop
\* taken with an empty accumulator emits no split point, and when a unit is
\* left it appends that unit to the accumulator whatever its word count,
\* max_words and the strict flag are.
C23_FirstUnitRule ==
    [][(pc = "loop" /\ current_units = <<>>)
          => (/\ split_points' = split_points
              /\ i < NumUnits =>
                    /\ current_units' = <<i>>
                    /\ current_word_count' = WordCount(i)
                    /\ i' = i + 1)]_vars

\* The first unit alone overflows max_words and was appended to the empty
\* accumulator without a split point.
C23_Witness ==
    /\ pc = "loop"
    /\ i = 1
    /\ NumUnits = 2
    /\ WordCount(0) > max_words
    /\ strict
    /\ current_units = <<0>>
    /\ current_word_count = WordCount(0)
    /\ split_points = <<>>

\* C24: in the list detect_section_boundaries returns, every page index
\* occurs at most once and the indices are in increasing order.
C24_OneFlagPerUnit ==
    pc = "detected" =>
        /\ StrictlyIncreasing(boundaries)
        /\ \A k, l \in 1..Len(boundaries) : boundaries[k] = boundaries[l] => k = l

\* C25: for max_words > 0 the split-point loop has no error path and
\* terminates.  Every step taken inside the loop either handles unit i and
\* moves to i + 1 while staying in the loop (whatever branch it takes), or is
\* the last-part step taken at i = n; the loop is entered at i = 0 and never
\* raises; and a loop that was entered reaches the end of the function.
C25_LoopTerminates ==
    /\ [][(pc = "loop" /\ max_words > 0)
            => \/ /\ i < NumUnits
                  /\ i' = i + 1
                  /\ pc' = "loop"
                  /\ branch' \in {"append", "split_before", "absorb", "boundary"}
               \/ /\ i = NumUnits
                  /\ i' = i
                  /\ pc' = "render"]_vars
    /\ [][(pc # "loop" /\ pc' = "loop") => i' = 0]_vars
    /\ (pc = "loop" /\ max_words > 0) ~> (pc = "render" /\ i = NumUnits)

\* The page loop has returned after two iterations, the second of which took
\* the boundary branch.
C25_Witness ==
    /\ pc = "render"
    /\ max_words > 0
    /\ program = PdfProgram
    /\ NumUnits = 2
    /\ i = 2
    /\ branch = "boundary"

\* The index after the last emitted split point, 0 when none was emitted.
AfterLastSplit == IF split_points = <<>> THEN 0 ELSE Last(split_points) + 1

\* C26: accumulator invariant.  At the start of every loop iteration i, in
\* every variant (also after the boundary branch of the page loop), the
\* accumulator holds exactly the units last split point + 1 .. i - 1 (0 .. i - 1
\* when no split point was emitted) and current_word_count is the sum of
\* their word counts; both are empty / 0 right after an absorb-and-split.
C26_AccumulatorInvariant ==
    pc = "loop" =>
        /\ current_units = Slice(NumUnits, AfterLastSplit, i)
        /\ current_word_count = UnitWords(current_units)
        /\ branch = "absorb" => (current_units = <<>> /\ current_word_count = 0)

\* The page loop has run its second iteration through the boundary branch,
\* which closed the part at page 0 and kept page 1 in the accumulator.
C26_Witness ==
    /\ pc = "loop"
    /\ program = PdfProgram
    /\ branch = "boundary"
    /\ i = 2
    /\ split_points = <<0>>
    /\ current_units = <<1>>
    /\ current_word_count = WordCount(1)

\* The parts closed so far by the loop.
ClosedParts == SplitParts(split_points, NumUnits)

\* C27: chapter loops, strict false.  Every part the loop closes holds at
\* least 40% of max_words (a part closed before unit i had an accumulator of
\* at least 40%, a part closed by absorb-and-split exceeds max_words), so in
\* the returned list every part but the last holds at least 40%; only the
\* part added by the last-part step can be smaller.
C27_PartsAtLeastFortyPercent ==
    (program \in EpubPrograms /\ ~strict) =>
        /\ pc = "loop" =>
              /\ \A k \in 1..Len(ClosedParts) :
                    5 * UnitWords(ClosedParts[k]) >= 2 * max_words
              /\ (branch = "absorb" /\ split_points # <<>>) =>
                    UnitWords(Last(ClosedParts)) > max_words
        /\ SplitPointsReturned =>
              \A k \in 1..(Len(Parts) - 1) : 5 * UnitWords(Parts[k]) >= 2 * max_words

\* A non-strict run returned two parts: the first closed by an
\* absorb-and-split, the last one non-empty and below 40% of max_words.
C27_Witness ==
    /\ program \in EpubPrograms
    /\ ~strict
    /\ SplitPointsReturned
    /\ Len(Parts) = 2
    /\ UnitWords(Parts[1]) > max_words
    /\ Len(Parts[1]) = 2
    /\ 5 * UnitWords(Parts[2]) < 2 * max_words
    /\ UnitWords(Parts[2]) > 0

Max(a, b) == IF a >= b THEN a ELSE b

\* The largest word count of a unit.
LargestUnit == SetMax({WordCount(idx) : idx \in 0..(NumUnits - 1)})

\* C28: chapter loops.  A returned part of more than max_words words is a
\* single unit, or (strict false only) a part whose units other than the last
\* sum to less than 40% of max_words; hence every part holds at most
\* max(max_words, 40% of max_words + the largest unit word count) words.
C28_OversizedPartBound ==
    (program \in EpubPrograms /\ SplitPointsReturned) =>
        \A k \in 1..Len(Parts) :
            /\ UnitWords(Parts[k]) > max_words =>
                  \/ Len(Parts[k]) = 1
                  \/ /\ ~strict
                     /\ 5 * UnitWords(AllButLast(Parts[k])) < 2 * max_words
            /\ 5 * UnitWords(Parts[k]) <=
                  Max(5 * max_words, 2 * max_words + 5 * LargestUnit)

\* A non-strict run returned a part of two units and more than max_words
\* words, within one word of the bound.
C28_Witness ==
    /\ program \in EpubPrograms
    /\ ~strict
    /\ SplitPointsReturned
    /\ Len(chapters) = 3
    /\ Len(Parts[1]) = 2
    /\ UnitWords(Parts[1]) > max_words
    /\ UnitWords(AllButLast(Parts[1])) > 0
    /\ 5 * UnitWords(Parts[1]) + 5 > 2 * max_words + 5 * LargestUnit

\* A second call of process() on the same instance has returned.
SecondCallReturned == first_call.calls = 1 /\ pc = "return"

\* C30: a second call of process() on the same instance and the same,
\* unchanged input file yields the chapter list, the split points and the
\* output-file list of the first call; self.chapters and self.output_files
\* do not grow from one call to the next.
C30_ProcessIdempotent ==
    SecondCallReturned =>
        /\ chapters = first_call.chapters
        /\ split_points = first_call.split_points
        /\ output_files = first_call.output_files

====
